---- MODULE Spec2Model ----
(***************************************************************************)
(* honggfuzz, POSIX/signal architecture backend (src/posix/arch.c).        *)
(*                                                                         *)
(* Two state machines over one set of variables:                           *)
(*   - the supervision side: every worker forks a child, waits for it in   *)
(*     arch_reapChild and classifies each status in arch_analyzeSignal,    *)
(*     which bumps the two shared crash counters and copies the input;     *)
(*   - the launch side: arch_launchChild builds the argument vector from   *)
(*     the command template, one loop iteration per step, and calls        *)
(*     execvp.                                                              *)
(*                                                                         *)
(* C strings are sequences of one-character strings, so that strcmp,       *)
(* strstr and snprintf are modelled by what they do to the characters.     *)
(***************************************************************************)
EXTENDS Integers, Sequences, FiniteSets, TLC

(***************************************************************************)
(* Bounds of the model.                                                    *)
(***************************************************************************)
NumWorkers == 2     \* concurrent workers sharing one honggfuzz_t
MaxForks == 2       \* children forked in one behaviour, over all workers
MaxTime == 1        \* ticks of the wall clock

(***************************************************************************)
(* Platform constants (Linux, glibc) used by the source.                   *)
(***************************************************************************)
NSIG == 65
SIGILL == 4
SIGABRT == 6
SIGBUS == 7
SIGFPE == 8
SIGSEGV == 11
PATH_MAX == 4096
ARGS_MAX == 512

Workers == 1..NumWorkers

Min(a, b) == IF a < b THEN a ELSE b

(***************************************************************************)
(* Strings.                                                                *)
(***************************************************************************)
Digits == <<"0", "1", "2", "3", "4", "5", "6", "7", "8", "9">>

\* printf("%d") of a non-negative integer
RECURSIVE FmtD(_)
FmtD(n) == IF n < 10 THEN <<Digits[n + 1]>>
           ELSE FmtD(n \div 10) \o <<Digits[(n % 10) + 1]>>

\* printf("%02d")
Fmt02(n) == <<Digits[((n \div 10) % 10) + 1], Digits[(n % 10) + 1]>>

\* snprintf(buf, size, ...): at most size - 1 characters are stored
snprintf(size, s) == SubSeq(s, 1, Min(Len(s), size - 1))

\* util_getLocalTime("%F.%H:%M:%S", ..., t): the time t seconds into
\* 2024-01-02 10:00:00 local time, as YYYY-MM-DD.HH:MM:SS
util_getLocalTime(t) ==
    <<"2", "0", "2", "4", "-", "0", "1", "-", "0", "2", ".">>
        \o Fmt02(10 + (t \div 3600)) \o <<":">>
        \o Fmt02((t \div 60) % 60) \o <<":">> \o Fmt02(t % 60)

(***************************************************************************)
(* The signal table, arch_sigs[NSIG].                                      *)
(***************************************************************************)
UNKNOWN == <<"U", "N", "K", "N", "O", "W", "N">>

SigDescr(sig) ==
    CASE sig = SIGILL  -> <<"S", "I", "G", "I", "L", "L">>
      [] sig = SIGFPE  -> <<"S", "I", "G", "F", "P", "E">>
      [] sig = SIGSEGV -> <<"S", "I", "G", "S", "E", "G", "V">>
      [] sig = SIGBUS  -> <<"S", "I", "G", "B", "U", "S">>
      [] sig = SIGABRT -> <<"S", "I", "G", "A", "B", "R", "T">>
      [] OTHER         -> UNKNOWN

\* a table that also takes SIGKILL (9) for a crash
ImportantSigsWithKill == {SIGILL, SIGFPE, SIGSEGV, SIGBUS, SIGABRT, 9}

\* lines 60-69: the entries marked important
ImportantSigs == {SIGILL, SIGFPE, SIGSEGV, SIGBUS, SIGABRT}

arch_sigs == [sig \in 0..(NSIG - 1) |->
                 [important |-> sig \in ImportantSigs, descr |-> SigDescr(sig)]]

(***************************************************************************)
(* The wait-status macros of <sys/wait.h>, on the raw status word.         *)
(***************************************************************************)
\* the signal read from the whole low byte, core flag included
WTERMSIGWithCoreFlag(s) == s % 256

\* status & 0x7f
WTERMSIG(s) == s % 128

WEXITSTATUS(s) == (s \div 256) % 256

\* a test that takes only exit code 0 for an exit
WIFEXITEDZeroOnly(s) == s = 0

\* (s & 0x7f) == 0
WIFEXITED(s) == WTERMSIG(s) = 0

\* ((signed char)((s & 0x7f) + 1) >> 1) > 0
WIFSIGNALED(s) == WTERMSIG(s) >= 1 /\ WTERMSIG(s) <= 126

\* the fallback of lines 46-50 for a libc without the macro: WEXITSTATUS(0)
WIFCONTINUEDAndroid(s) == WEXITSTATUS(0) # 0

\* s == 0xffff
WIFCONTINUED(s) == s = 65535

\* raw status words as the kernel builds them
W_EXITCODE(code, sig) == code * 256 + sig
W_STOPCODE(sig) == sig * 256 + 127
W_COREDUMP(sig) == sig + 128

\* an exited or signaled status: the child is gone once it is collected
Terminal(s) == s % 128 # 127

(***************************************************************************)
(* Inputs of the supervision side.                                         *)
(***************************************************************************)
\* The status words handed to arch_analyzeSignal. The analyzer tests for
\* continue notifications and for words that are neither exit nor signal
\* death, so both are among its inputs, whatever the wait4 flags let through.
\* For concurrent workers: exit code 0, SIGSEGV and a continue notification.
Statuses == {W_EXITCODE(0, 0), SIGSEGV, 65535}

\* every status word of a signal death, with and without core dump, three
\* exit codes, a stop by SIGSTOP (19), a stop of a traced child by SIGSEGV
\* and the continue notification
AllStatuses == Statuses \cup (1..(NSIG - 1))
                   \cup {W_COREDUMP(sig) : sig \in 1..(NSIG - 1)}
                   \cup {W_EXITCODE(1, 0), W_EXITCODE(255, 0), W_STOPCODE(19),
                         W_STOPCODE(SIGSEGV)}

Pids == {7, 4242}

OrigNames == {<<"s", "e", "e", "d", "1">>}

AllOrigNames == OrigNames \cup {<<"b", ".", "t", "x", "t">>}

\* origFlipRate, in thousandths
FlipRates == {0, 50}

WorkDir == <<"/", "o", "u", "t">>

FileExtn == <<"f", "u", "z", "z">>

\* the mutated input file of worker w
InputPath(w) == <<"/", "t", "m", "p", "/", "f">> \o FmtD(w)

(***************************************************************************)
(* State.                                                                  *)
(***************************************************************************)
VARIABLES
    hfuzz,             \* origFlipRate, useVerifier, workDir, fileExtn
    crashesCnt,        \* hfuzz->crashesCnt
    uniqueCrashesCnt,  \* hfuzz->uniqueCrashesCnt
    fuzzer,            \* per worker: pid, fileName, origFileName
    pc,                \* per worker: where its arch_reapChild stands
    status,            \* per worker: the int status of arch_reapChild
    newname,           \* per worker: the newname buffer of the analyzer
    rv,                \* per worker: last return value of the analyzer
    child,             \* per worker: "none", "alive", "zombie" or "reaped"
    events,            \* per worker: calls made during this arch_reapChild
    copies,            \* per worker: files_copyFile calls of this arch_reapChild
    now,               \* time(NULL)
    forks,             \* children forked so far
    persisted,         \* artifacts written: [dst, run, pid, orig, sig]
    crashTerminations, \* analyzed terminations by a crash-worthy signal
    zombie,            \* per worker: status word of the dead, uncollected child
    reported           \* per worker: last status wait4 returned with fuzzer->pid

svars == <<hfuzz, crashesCnt, uniqueCrashesCnt, fuzzer, pc, status, newname,
           rv, child, events, copies, now, forks, persisted,
           crashTerminations, zombie, reported>>

\* arch_launchChild, in the forked child
VARIABLES
    cmdline,           \* hfuzz->cmdline, without its NULL terminator
    fuzzStdin,         \* hfuzz->fuzzStdin
    fileName,          \* the fileName argument
    x,                 \* the loop index
    args,              \* char *args[]: where each entry points
    argData,           \* char argData[PATH_MAX]
    lpc,               \* "idle", "loop", "execvp", "target" or "returned"
    argv               \* the strings the target was started with

lvars == <<cmdline, fuzzStdin, fileName, x, args, argData, lpc, argv>>

\* the status macros and the table index of arch_analyzeSignal, applied to
\* one status word
VARIABLES
    rawStatus,         \* the int status parameter
    class,             \* "none" before, then what lines 82-101 take it for
    termsig            \* line 107: the index into arch_sigs, -1 when not set

cvars == <<rawStatus, class, termsig>>

vars == <<svars, lvars, cvars>>

NoFuzzer == [pid |-> 0, fileName |-> <<>>, origFileName |-> <<>>, run |-> 0]

Configs == [origFlipRate : FlipRates, useVerifier : BOOLEAN,
            workDir : {WorkDir}, fileExtn : {FileExtn}]

\* dry run with the verifier, and fuzzing without it
ConcurrentConfigs == {c \in Configs : c.useVerifier = (c.origFlipRate = 0)}

InitWith(configs) ==
    /\ hfuzz \in configs
    /\ crashesCnt = 0
    /\ uniqueCrashesCnt = 0
    /\ fuzzer = [w \in Workers |-> NoFuzzer]
    /\ pc = [w \in Workers |-> "idle"]
    /\ status = [w \in Workers |-> -1]
    /\ newname = [w \in Workers |-> <<>>]
    /\ rv = [w \in Workers |-> "none"]
    /\ child = [w \in Workers |-> "none"]
    /\ events = [w \in Workers |-> <<>>]
    /\ copies = [w \in Workers |-> <<>>]
    /\ now = 0
    /\ forks = 0
    /\ persisted = {}
    /\ crashTerminations = 0
    /\ zombie = [w \in Workers |-> -1]
    /\ reported = [w \in Workers |-> -1]

\* no launch under way
LaunchIdle ==
    /\ cmdline = <<>>
    /\ fuzzStdin = FALSE
    /\ fileName = <<>>
    /\ x = 0
    /\ args = <<>>
    /\ argData = <<>>
    /\ lpc = "idle"
    /\ argv = <<>>

\* no status word under classification
ClassifyIdle ==
    /\ rawStatus = -1
    /\ class = "none"
    /\ termsig = -1

Init == InitWith(ConcurrentConfigs) /\ LaunchIdle /\ ClassifyIdle

InitSeq == InitWith(Configs) /\ LaunchIdle /\ ClassifyIdle

(***************************************************************************)
(* arch_fork and the entry of arch_reapChild.                              *)
(***************************************************************************)
FreePids ==
    Pids \ {fuzzer[v].pid : v \in {u \in Workers : child[u] \in {"alive", "zombie"}}}

\* The caller of arch_fork and arch_reapChild is not part of this file: it
\* supervises a child only when one was spawned (the process id is valid
\* between spawn and reap), so the -1 of a failed fork is not reaped.
CallerReaps(pid) == pid # -1

\* Lines 142-145: fork() returns the pid of the new child, or -1 when no
\* process could be made. The worker makes the fuzzer_t of its next run,
\* forks, and enters arch_reapChild when there is a child.
arch_fork(w, names) ==
    /\ pc[w] \in {"idle", "returned", "forkFailed"}
    /\ forks < MaxForks
    /\ forks' = forks + 1
    /\ \E pid \in FreePids \cup {-1}, orig \in names :
           /\ fuzzer' = [fuzzer EXCEPT ![w] = [pid |-> pid,
                                               fileName |-> InputPath(w),
                                               origFileName |-> orig,
                                               run |-> forks + 1]]
           /\ pc' = [pc EXCEPT ![w] =
                         IF CallerReaps(pid) THEN "wait4" ELSE "forkFailed"]
           /\ child' = [child EXCEPT ![w] = IF pid = -1 THEN "none" ELSE "alive"]
    /\ status' = [status EXCEPT ![w] = -1]
    /\ rv' = [rv EXCEPT ![w] = "none"]
    /\ newname' = [newname EXCEPT ![w] = <<>>]
    /\ events' = [events EXCEPT ![w] = <<>>]
    /\ copies' = [copies EXCEPT ![w] = <<>>]
    /\ zombie' = [zombie EXCEPT ![w] = -1]
    /\ reported' = [reported EXCEPT ![w] = -1]
    /\ UNCHANGED <<cvars, lvars, hfuzz, crashesCnt, uniqueCrashesCnt, now,
                   persisted, crashTerminations>>

(***************************************************************************)
(* arch_reapChild: while (wait4(fuzzer->pid, &status, __WALL, NULL)         *)
(*                        != fuzzer->pid) ;                                 *)
(***************************************************************************)
\* wait4 fails (EINTR, or ECHILD once the child was collected): the inner
\* loop calls it again; nothing of the program's state changes.
Wait4Retry(w) ==
    /\ pc[w] = "wait4"
    /\ UNCHANGED vars

\* wait4 returns fuzzer->pid with status st.
Wait4Status(w, st) ==
    /\ pc[w] = "wait4"
    /\ child[w] = "alive"
    /\ status' = [status EXCEPT ![w] = st]
    /\ child' = [child EXCEPT ![w] = IF Terminal(st) THEN "reaped" ELSE "alive"]
    /\ reported' = [reported EXCEPT ![w] = st]
    /\ pc' = [pc EXCEPT ![w] = "analyze"]
    /\ UNCHANGED <<cvars, lvars, zombie, hfuzz, crashesCnt, uniqueCrashesCnt,
                   fuzzer, newname, rv, events, copies, now, forks, persisted,
                   crashTerminations>>

\* The child ends (exit or signal death) with status word st and stays a
\* zombie until a wait4 collects it.
ChildDies(w, st) ==
    /\ child[w] = "alive"
    /\ Terminal(st)
    /\ child' = [child EXCEPT ![w] = "zombie"]
    /\ zombie' = [zombie EXCEPT ![w] = st]
    /\ UNCHANGED <<cvars, lvars, reported, hfuzz, crashesCnt,
                   uniqueCrashesCnt, fuzzer, pc, status, newname, rv, events,
                   copies, now, forks, persisted, crashTerminations>>

\* a wait4 that collects the dead child and is called again all the same
Wait4ZombieKeepsLooping(w) ==
    /\ pc[w] = "wait4"
    /\ child[w] = "zombie"
    /\ status' = [status EXCEPT ![w] = zombie[w]]
    /\ reported' = [reported EXCEPT ![w] = zombie[w]]
    /\ child' = [child EXCEPT ![w] = "reaped"]
    /\ UNCHANGED <<cvars, lvars, zombie, hfuzz, crashesCnt, uniqueCrashesCnt,
                   fuzzer, pc, newname, rv, events, copies, now, forks,
                   persisted, crashTerminations>>

\* wait4 finds the dead child: it returns fuzzer->pid with the child's
\* status word, and the inner loop is left.
Wait4Zombie(w) ==
    /\ pc[w] = "wait4"
    /\ child[w] = "zombie"
    /\ status' = [status EXCEPT ![w] = zombie[w]]
    /\ reported' = [reported EXCEPT ![w] = zombie[w]]
    /\ child' = [child EXCEPT ![w] = "reaped"]
    /\ pc' = [pc EXCEPT ![w] = "analyze"]
    /\ UNCHANGED <<cvars, lvars, zombie, hfuzz, crashesCnt, uniqueCrashesCnt,
                   fuzzer, newname, rv, events, copies, now, forks, persisted,
                   crashTerminations>>

\* a wait4 result other than fuzzer->pid taken for the child's
Wait4OtherAnalyzed(w, st) ==
    /\ pc[w] = "wait4"
    /\ status' = [status EXCEPT ![w] = st]
    /\ pc' = [pc EXCEPT ![w] = "analyze"]
    /\ UNCHANGED <<cvars, lvars, zombie, reported, hfuzz, crashesCnt,
                   uniqueCrashesCnt, fuzzer, newname, rv, child, events,
                   copies, now, forks, persisted, crashTerminations>>

\* wait4 returns something other than fuzzer->pid (an error, or the id of
\* another process) and may have stored a status word st that is not the
\* child's: the condition of the inner while holds and wait4 is called again.
Wait4Other(w, st) ==
    /\ pc[w] = "wait4"
    /\ status' = [status EXCEPT ![w] = st]
    /\ UNCHANGED <<cvars, lvars, zombie, reported, hfuzz, crashesCnt,
                   uniqueCrashesCnt, fuzzer, pc, newname, rv, child, events,
                   copies, now, forks, persisted, crashTerminations>>

(***************************************************************************)
(* arch_analyzeSignal.                                                     *)
(***************************************************************************)
\* the hook called for exited children only
CallsSancovExitedOnly(s) == WIFEXITED(s)

\* the hook called for every status that is not a continue notification
CallsSancovUnconditionally(s) == TRUE

\* line 86: the statuses for which sancov_Analyze is called
CallsSancov(s) == WIFEXITED(s) \/ WIFSIGNALED(s)

\* Lines 109 and 123: arch_sigs[termsig], read without a range check. The
\* status words handed to the analyzer by the specifications of
\* arch_reapChild are those wait4 reports for a child; the ones taken for a
\* signal death have a WTERMSIG of at most NSIG - 1, so the entry read is
\* an entry of the table.
SigEntry(sig) == {arch_sigs[sig]}

\* line 120 with || for &&
SameNameEitherFlag == hfuzz.origFlipRate = 0 \/ hfuzz.useVerifier

\* line 120: dry run with the verifier keeps the file name
SameName == hfuzz.origFlipRate = 0 /\ hfuzz.useVerifier

\* a decorated name that leaves the pid out
NewNameNoPid(fz, descr, t) ==
    IF SameName
    THEN snprintf(PATH_MAX, fz.origFileName)
    ELSE snprintf(PATH_MAX,
             hfuzz.workDir \o <<"/">> \o descr \o <<".">>
                 \o util_getLocalTime(t) \o <<".">>
                 \o fz.origFileName \o <<".">> \o hfuzz.fileExtn)

\* lines 114-126: the destination of the crash file
NewName(fz, descr, t) ==
    IF SameName
    THEN snprintf(PATH_MAX, fz.origFileName)
    ELSE snprintf(PATH_MAX,
             hfuzz.workDir \o <<"/">> \o descr \o <<".">> \o FmtD(fz.pid)
                 \o <<".">> \o util_getLocalTime(t) \o <<".">>
                 \o fz.origFileName \o <<".">> \o hfuzz.fileExtn)

\* the crash-worthy signals, for counting what was analyzed
CrashWorthy == {SIGILL, SIGFPE, SIGSEGV, SIGBUS, SIGABRT}

IsCrashStatus(s) == Terminal(s) /\ s % 128 \in CrashWorthy

\* Lines 82-128: classify status[w]; on a crash, fill newname and go on to
\* the counters.
AnalyzeClassify(w) ==
    /\ pc[w] = "analyze"
    /\ LET s == status[w]
           hooked == IF CallsSancov(s) THEN <<"sancov_Analyze">> ELSE <<>>
       IN  /\ crashTerminations' =
                  crashTerminations + (IF IsCrashStatus(s) THEN 1 ELSE 0)
           /\ IF WIFCONTINUED(s)
              THEN /\ rv' = [rv EXCEPT ![w] = "false"]
                   /\ pc' = [pc EXCEPT ![w] = "wait4"]
                   /\ UNCHANGED <<events, newname>>
              ELSE IF WIFEXITED(s)
              THEN /\ events' = [events EXCEPT ![w] = @ \o hooked]
                   /\ rv' = [rv EXCEPT ![w] = "true"]
                   /\ pc' = [pc EXCEPT ![w] = "returned"]
                   /\ UNCHANGED newname
              ELSE IF ~WIFSIGNALED(s)
              THEN /\ events' = [events EXCEPT ![w] = @ \o hooked \o <<"LOG_E">>]
                   /\ rv' = [rv EXCEPT ![w] = "true"]
                   /\ pc' = [pc EXCEPT ![w] = "returned"]
                   /\ UNCHANGED newname
              ELSE \E e \in SigEntry(WTERMSIG(s)) :
                      IF ~e.important
                      THEN /\ events' = [events EXCEPT ![w] = @ \o hooked]
                           /\ rv' = [rv EXCEPT ![w] = "true"]
                           /\ pc' = [pc EXCEPT ![w] = "returned"]
                           /\ UNCHANGED newname
                      ELSE /\ events' = [events EXCEPT ![w] = @ \o hooked]
                           /\ newname' = [newname EXCEPT ![w] =
                                              NewName(fuzzer[w], e.descr, now)]
                           /\ pc' = [pc EXCEPT ![w] = "crashesCnt"]
                           /\ UNCHANGED rv
    /\ UNCHANGED <<cvars, lvars, zombie, reported, hfuzz, crashesCnt,
                   uniqueCrashesCnt, fuzzer, status, child, copies, now,
                   forks, persisted>>

\* an increment whose store is lost
sync_fetch_and_add_lost(v, n) == v

\* __sync_fetch_and_add(&v, n): one atomic read-modify-write; the new value
sync_fetch_and_add(v, n) == v + n

\* line 133 put on the wrong counter
IncCrashesOnUnique(w) ==
    /\ pc[w] = "crashesCnt"
    /\ uniqueCrashesCnt' = sync_fetch_and_add(uniqueCrashesCnt, 1)
    /\ events' = [events EXCEPT ![w] = Append(@, "crashesCnt")]
    /\ pc' = [pc EXCEPT ![w] = "uniqueCrashesCnt"]
    /\ UNCHANGED <<cvars, lvars, zombie, reported, hfuzz, crashesCnt, fuzzer,
                   status, newname, rv, child, copies, now, forks, persisted,
                   crashTerminations>>

\* line 133
IncCrashes(w) ==
    /\ pc[w] = "crashesCnt"
    /\ crashesCnt' = sync_fetch_and_add(crashesCnt, 1)
    /\ events' = [events EXCEPT ![w] = Append(@, "crashesCnt")]
    /\ pc' = [pc EXCEPT ![w] = "uniqueCrashesCnt"]
    /\ UNCHANGED <<cvars, lvars, zombie, reported, hfuzz, uniqueCrashesCnt,
                   fuzzer, status, newname, rv, child, copies, now, forks,
                   persisted, crashTerminations>>

\* the second counter left alone
IncUniqueSkipped(w) ==
    /\ pc[w] = "uniqueCrashesCnt"
    /\ events' = [events EXCEPT ![w] = Append(@, "uniqueCrashesCnt")]
    /\ pc' = [pc EXCEPT ![w] = "files_copyFile"]
    /\ UNCHANGED <<cvars, lvars, zombie, reported, hfuzz, crashesCnt,
                   uniqueCrashesCnt, fuzzer, status, newname, rv, child,
                   copies, now, forks, persisted, crashTerminations>>

\* line 134
IncUnique(w) ==
    /\ pc[w] = "uniqueCrashesCnt"
    /\ uniqueCrashesCnt' = sync_fetch_and_add(uniqueCrashesCnt, 1)
    /\ events' = [events EXCEPT ![w] = Append(@, "uniqueCrashesCnt")]
    /\ pc' = [pc EXCEPT ![w] = "files_copyFile"]
    /\ UNCHANGED <<cvars, lvars, zombie, reported, hfuzz, crashesCnt, fuzzer,
                   status, newname, rv, child, copies, now, forks, persisted,
                   crashTerminations>>

\* the copy taken from the seed instead of the mutated input
CopySourceOrig(w) == fuzzer[w].origFileName

\* line 136: the file handed to files_copyFile as the source
CopySource(w) == fuzzer[w].fileName

\* a copy whose failure takes the crash back out of both counters
CopyFileRollback(w) ==
    /\ pc[w] = "files_copyFile"
    /\ \E ok \in BOOLEAN :
          LET c == [src |-> CopySource(w), dst |-> newname[w], ok |-> ok]
          IN  /\ copies' = [copies EXCEPT ![w] = Append(@, c)]
              /\ events' = [events EXCEPT ![w] =
                                @ \o <<"files_copyFile">>
                                  \o (IF ok THEN <<>> ELSE <<"LOG_E">>)]
              /\ persisted' =
                     IF ok THEN persisted \cup {[dst |-> c.dst,
                                                 run |-> fuzzer[w].run,
                                                 pid |-> fuzzer[w].pid,
                                                 orig |-> fuzzer[w].origFileName,
                                                 sig |-> WTERMSIG(status[w])]}
                     ELSE persisted
              /\ crashesCnt' = IF ok THEN crashesCnt ELSE crashesCnt - 1
              /\ uniqueCrashesCnt' =
                     IF ok THEN uniqueCrashesCnt ELSE uniqueCrashesCnt - 1
    /\ rv' = [rv EXCEPT ![w] = "true"]
    /\ pc' = [pc EXCEPT ![w] = "returned"]
    /\ UNCHANGED <<cvars, lvars, zombie, reported, hfuzz, fuzzer, status,
                   newname, child, now, forks, crashTerminations>>

\* Lines 136-139: files_copyFile succeeds or fails; either way the analyzer
\* returns true and arch_reapChild returns.
CopyFile(w) ==
    /\ pc[w] = "files_copyFile"
    /\ \E ok \in BOOLEAN :
          LET c == [src |-> CopySource(w), dst |-> newname[w], ok |-> ok]
          IN  /\ copies' = [copies EXCEPT ![w] = Append(@, c)]
              /\ events' = [events EXCEPT ![w] =
                                @ \o <<"files_copyFile">>
                                  \o (IF ok THEN <<>> ELSE <<"LOG_E">>)]
              /\ persisted' =
                     IF ok THEN persisted \cup {[dst |-> c.dst,
                                                 run |-> fuzzer[w].run,
                                                 pid |-> fuzzer[w].pid,
                                                 orig |-> fuzzer[w].origFileName,
                                                 sig |-> WTERMSIG(status[w])]}
                     ELSE persisted
    /\ rv' = [rv EXCEPT ![w] = "true"]
    /\ pc' = [pc EXCEPT ![w] = "returned"]
    /\ UNCHANGED <<cvars, lvars, zombie, reported, hfuzz, crashesCnt,
                   uniqueCrashesCnt, fuzzer, status, newname, child, now,
                   forks, crashTerminations>>

\* time passes
Tick ==
    /\ now < MaxTime
    /\ now' = now + 1
    /\ UNCHANGED <<cvars, lvars, zombie, reported, hfuzz, crashesCnt,
                   uniqueCrashesCnt, fuzzer, pc, status, newname, rv, child,
                   events, copies, forks, persisted, crashTerminations>>

\* Concurrent workers.
Next ==
    \/ \E w \in Workers : arch_fork(w, OrigNames)
    \/ \E w \in Workers : Wait4Retry(w)
    \/ \E w \in Workers, st \in Statuses : Wait4Status(w, st)
    \/ \E w \in Workers : AnalyzeClassify(w)
    \/ \E w \in Workers : IncCrashes(w)
    \/ \E w \in Workers : IncUnique(w)
    \/ \E w \in Workers : CopyFile(w)
    \/ Tick

Spec == Init /\ [][Next]_vars

\* One run of one worker, over every status word, file name, pid and
\* configuration.
NextSeq ==
    \/ forks = 0 /\ arch_fork(1, AllOrigNames)
    \/ Wait4Retry(1)
    \/ \E st \in AllStatuses : Wait4Status(1, st)
    \/ AnalyzeClassify(1)
    \/ IncCrashes(1)
    \/ IncUnique(1)
    \/ CopyFile(1)
    \/ Tick

SpecSeq == InitSeq /\ [][NextSeq]_vars

\* deaths by two different crash-worthy signals
CrashStatuses == {SIGSEGV, W_COREDUMP(SIGABRT)}

\* a clash of names is between two persistences: two workers give every
\* pair, of one worker or of two
NamingWorkers == {w \in Workers : w <= 2}

\* Concurrent workers whose children all crash, over both original file
\* names and both signals, so that runs differ in every part of the name.
NextNames ==
    \/ \E w \in NamingWorkers : arch_fork(w, AllOrigNames)
    \/ \E w \in NamingWorkers, st \in CrashStatuses : Wait4Status(w, st)
    \/ \E w \in NamingWorkers : AnalyzeClassify(w)
    \/ \E w \in NamingWorkers : IncCrashes(w)
    \/ \E w \in NamingWorkers : IncUnique(w)
    \/ \E w \in NamingWorkers : CopyFile(w)
    \/ Tick

SpecNames == Init /\ [][NextNames]_vars

\* every 16-bit status word
RawStatuses == 0..65535

\* Lines 82-101: what the analyzer takes a status word for, in the order of
\* its tests.
Classification(s) ==
    IF WIFCONTINUED(s) THEN "continued"
    ELSE IF WIFEXITED(s) THEN "exited"
    ELSE IF ~WIFSIGNALED(s) THEN "unexpected"
    ELSE "signaled"

\* Lines 82-109 on one status word: the tests, and for a signal death
\* termsig = WTERMSIG(status), the index of the read of arch_sigs.
Classify ==
    /\ class = "none"
    /\ class' = Classification(rawStatus)
    /\ termsig' = IF Classification(rawStatus) = "signaled"
                  THEN WTERMSIG(rawStatus) ELSE -1
    /\ UNCHANGED <<svars, lvars, rawStatus>>

InitClassify ==
    /\ InitWith(ConcurrentConfigs)
    /\ LaunchIdle
    /\ rawStatus \in RawStatuses
    /\ class = "none"
    /\ termsig = -1

NextClassify == Classify

\* The classification of arch_analyzeSignal as a function of the status
\* word, over every 16-bit word.
SpecClassify == InitClassify /\ [][NextClassify]_vars

\* status words wait4 may store while returning something else than
\* fuzzer->pid
ForeignStatuses == {W_EXITCODE(0, 0), SIGSEGV, SIGABRT, 65535}

\* the ways the child of SpecWait ends: exit, crash-worthy signal, and
\* SIGKILL (9)
Deaths == {W_EXITCODE(0, 0), W_EXITCODE(1, 0), SIGSEGV, W_COREDUMP(SIGABRT), 9}

\* One run of one worker in which the child dies on its own and wait4 may
\* return other things than fuzzer->pid before it returns the child.
NextWait ==
    \/ forks = 0 /\ arch_fork(1, OrigNames)
    \/ \E st \in Deaths : ChildDies(1, st)
    \/ Wait4Retry(1)
    \/ \E st \in ForeignStatuses : Wait4Other(1, st)
    \/ \E st \in {65535, W_STOPCODE(19)} : Wait4Status(1, st)
    \/ Wait4Zombie(1)
    \/ AnalyzeClassify(1)
    \/ IncCrashes(1)
    \/ IncUnique(1)
    \/ CopyFile(1)
    \/ Tick

\* wait4 on a dead child returns at once, and a running worker goes on
\* running: every step of arch_reapChild that can be taken is taken.
SpecWait == InitSeq /\ [][NextWait]_vars /\ WF_vars(Wait4Zombie(1))
               /\ WF_vars(AnalyzeClassify(1)) /\ WF_vars(IncCrashes(1))
               /\ WF_vars(IncUnique(1)) /\ WF_vars(CopyFile(1))
(***************************************************************************)
(* arch_launchChild.                                                       *)
(***************************************************************************)
\* _HF_FILE_PLACEHOLDER (common.h): "___FILE___"
_HF_FILE_PLACEHOLDER == <<"_", "_", "_", "F", "I", "L", "E", "_", "_", "_">>

\* strstr(h, n): the offset of the first occurrence of n in h, -1 for NULL
strstr(h, n) ==
    LET at == {i \in 0..(Len(h) - Len(n)) : SubSeq(h, i + 1, i + Len(n)) = n}
    IN  IF at = {} THEN -1 ELSE CHOOSE i \in at : \A j \in at : i <= j

\* what a pointer stored in args[] points to
PtrFile == [buf |-> "fileName", idx |-> 0]
PtrData == [buf |-> "argData", idx |-> 0]
PtrCmd(i) == [buf |-> "cmdline", idx |-> i]
PtrNull == [buf |-> "NULL", idx |-> 0]

\* substitution tried whatever fuzzStdin says
SubstitutesAlways == TRUE

\* lines 155 and 157: substitution is tried only when not fuzzing stdin
Substitutes == ~fuzzStdin

\* Lines 154-165: one iteration of the for loop, on cmdline[x].
LaunchLoop ==
    /\ lpc = "loop"
    /\ x < ARGS_MAX
    /\ x < Len(cmdline)
    /\ LET a == cmdline[x + 1]
           off == strstr(a, _HF_FILE_PLACEHOLDER)
       IN  IF Substitutes /\ a = _HF_FILE_PLACEHOLDER
           THEN /\ args' = Append(args, PtrFile)
                /\ UNCHANGED argData
           ELSE IF Substitutes /\ off # -1
           THEN /\ argData' = snprintf(PATH_MAX, SubSeq(a, 1, off) \o fileName)
                /\ args' = Append(args, PtrData)
           ELSE /\ args' = Append(args, PtrCmd(x + 1))
                /\ UNCHANGED argData
    /\ x' = x + 1
    /\ UNCHANGED <<cvars, svars, cmdline, fuzzStdin, fileName, lpc, argv>>

\* the sentinel written over the last argument instead of after it
LaunchTerminateOverLast ==
    /\ lpc = "loop"
    /\ ~(x < ARGS_MAX /\ x < Len(cmdline))
    /\ args' = SubSeq(args, 1, Len(args) - 1) \o <<PtrNull>>
    /\ x' = x
    /\ lpc' = "execvp"
    /\ UNCHANGED <<cvars, svars, cmdline, fuzzStdin, fileName, argData, argv>>

\* Line 167: the loop is over, args[x++] = NULL.
LaunchTerminate ==
    /\ lpc = "loop"
    /\ ~(x < ARGS_MAX /\ x < Len(cmdline))
    /\ args' = Append(args, PtrNull)
    /\ x' = x + 1
    /\ lpc' = "execvp"
    /\ UNCHANGED <<cvars, svars, cmdline, fuzzStdin, fileName, argData, argv>>

\* the string a pointer of args[] points to when execvp reads it
Deref(p) ==
    CASE p.buf = "fileName" -> fileName
      [] p.buf = "argData"  -> argData
      [] p.buf = "cmdline"  -> cmdline[p.idx]

\* the strings of args[] up to the first NULL
ArgStrings ==
    LET n == CHOOSE i \in 1..Len(args) :
                 /\ args[i] = PtrNull
                 /\ \A j \in 1..(i - 1) : args[j] # PtrNull
    IN  [i \in 1..(n - 1) |-> Deref(args[i])]

\* a failed execvp that ends the process instead of returning
LaunchExecvpExits ==
    /\ lpc = "execvp"
    /\ \E ok \in BOOLEAN :
          IF ok THEN lpc' = "target" /\ argv' = ArgStrings
          ELSE lpc' = "exited" /\ UNCHANGED argv
    /\ UNCHANGED <<cvars, svars, cmdline, fuzzStdin, fileName, x, args,
                   argData>>

\* Lines 171-172: execvp replaces the process image and never returns, or
\* fails and the function returns false.
LaunchExecvp ==
    /\ lpc = "execvp"
    /\ \E ok \in BOOLEAN :
          IF ok THEN lpc' = "target" /\ argv' = ArgStrings
          ELSE lpc' = "returned" /\ UNCHANGED argv
    /\ UNCHANGED <<cvars, svars, cmdline, fuzzStdin, fileName, x, args,
                   argData>>

(***************************************************************************)
(* Inputs of the launch side.                                              *)
(***************************************************************************)
S_target == <<"t", "g", "t">>
S_rest == <<"r", "e", "s", "t">>
S_in == <<"-", "i", "=">>
S_out == <<"-", "o", "=">>

Templates ==
    { <<S_target, S_in \o _HF_FILE_PLACEHOLDER, S_rest>>,
      <<S_target, _HF_FILE_PLACEHOLDER>>,
      <<S_target, S_rest>>,
      <<S_target, S_in \o _HF_FILE_PLACEHOLDER \o <<".", "x">>, S_rest>>,
      <<S_target, S_in \o _HF_FILE_PLACEHOLDER, S_out \o _HF_FILE_PLACEHOLDER>>,
      <<S_target, _HF_FILE_PLACEHOLDER, S_in \o _HF_FILE_PLACEHOLDER,
        _HF_FILE_PLACEHOLDER \o _HF_FILE_PLACEHOLDER>>,
      [i \in 1..(ARGS_MAX + 1) |->
          IF i = 1 THEN S_target
          ELSE IF i = ARGS_MAX + 1 THEN _HF_FILE_PLACEHOLDER ELSE S_rest] }

LaunchPaths == {InputPath(w) : w \in Workers}

InitLaunch ==
    /\ InitWith(ConcurrentConfigs)
    /\ ClassifyIdle
    /\ cmdline \in Templates
    /\ fuzzStdin \in BOOLEAN
    /\ fileName \in LaunchPaths
    /\ x = 0
    /\ args = <<>>
    /\ argData = <<>>
    /\ lpc = "loop"
    /\ argv = <<>>

NextLaunch == LaunchLoop \/ LaunchTerminate \/ LaunchExecvp

SpecLaunch == InitLaunch /\ [][NextLaunch]_vars
(***************************************************************************)
(* Properties.                                                             *)
(***************************************************************************)
Count(seq, e) == Cardinality({i \in DOMAIN seq : seq[i] = e})

Finished(w) == pc[w] \in {"idle", "returned", "forkFailed"}

\* a death by one of the five crash-worthy signals, read off the status word
\* without the macros of the analyzer
CrashDeath(s) == s % 128 \in {SIGILL, SIGFPE, SIGSEGV, SIGBUS, SIGABRT}

\* a death by any other signal
OtherSignalDeath(s) == s % 128 \in (1..126) \ {SIGILL, SIGFPE, SIGSEGV, SIGBUS, SIGABRT}

\* a normal exit, any exit code
NormalExit(s) == s % 256 = 0

InCrashPath(w) == pc[w] \in {"crashesCnt", "uniqueCrashesCnt", "files_copyFile"}

\* artifacts the run of worker w has written
Persisted(w) == {a \in persisted : a.run = fuzzer[w].run}

\* C1: once every worker has finished, both counters equal the number of
\* analyzed terminations by a crash-worthy signal: each crash added exactly
\* one to each counter and no increment was lost, whatever the interleaving.
C1_CountersCountCrashes ==
    (\A w \in Workers : Finished(w)) =>
        /\ crashesCnt = crashTerminations
        /\ uniqueCrashesCnt = crashTerminations

\* Two workers have each analyzed a crash and returned.
C1_Witness ==
    /\ \A w \in Workers : Finished(w)
    /\ \E v, w \in Workers :
          /\ v # w
          /\ pc[v] = "returned" /\ CrashDeath(status[v])
          /\ pc[w] = "returned" /\ CrashDeath(status[w])
    /\ crashTerminations >= 2

\* C2: uniqueCrashesCnt <= crashesCnt in every reachable state, also while
\* workers stand between their two increments.
C2_UniqueAtMostTotal == uniqueCrashesCnt <= crashesCnt

\* Two workers stand between line 133 and line 134 at once.
C2_Witness ==
    \E v, w \in Workers :
        v # w /\ pc[v] = "uniqueCrashesCnt" /\ pc[w] = "uniqueCrashesCnt"

\* C3 as stated: a supervision that ended on a crash-worthy signal has
\* persisted exactly one artifact.
C3_ExactlyOneArtifactPersisted ==
    \A w \in Workers :
        (pc[w] = "returned" /\ CrashDeath(status[w])) =>
            Cardinality(Persisted(w)) = 1

\* C3, amended: a supervision that ended on a crash-worthy signal has made
\* exactly one files_copyFile call, from the candidate input to the computed
\* destination; one artifact is persisted when that copy succeeded and none
\* when it failed; no supervision makes more than one copy.
C3_ExactlyOneCopyAttempt ==
    \A w \in Workers :
        /\ Len(copies[w]) <= 1
        /\ Cardinality(Persisted(w)) <= 1
        /\ (pc[w] = "returned" /\ CrashDeath(status[w])) =>
              /\ Len(copies[w]) = 1
              /\ copies[w][1].src = fuzzer[w].fileName
              /\ copies[w][1].dst = newname[w]
              /\ newname[w] # <<>>
              /\ {a.dst : a \in Persisted(w)} =
                    IF copies[w][1].ok THEN {newname[w]} ELSE {}

\* A supervision ended on a crash and its one copy succeeded.
C3_Witness ==
    \E w \in Workers :
        /\ pc[w] = "returned" /\ CrashDeath(status[w])
        /\ Len(copies[w]) = 1 /\ copies[w][1].ok
        /\ Cardinality(Persisted(w)) = 1

\* C4: a termination by a signal outside SIGILL, SIGFPE, SIGSEGV, SIGBUS,
\* SIGABRT makes the analyzer return true at once, with no copy attempt and
\* both counters untouched.
C4_OtherSignalsLeaveNoTrace ==
    \A w \in Workers :
        OtherSignalDeath(status[w]) =>
            /\ pc[w] \in {"analyze", "returned"}
            /\ pc[w] = "returned" =>
                  /\ rv[w] = "true"
                  /\ copies[w] = <<>>
                  /\ Count(events[w], "files_copyFile") = 0
                  /\ Count(events[w], "crashesCnt") = 0
                  /\ Count(events[w], "uniqueCrashesCnt") = 0
                  /\ crashesCnt = 0
                  /\ uniqueCrashesCnt = 0
                  /\ persisted = {}

\* The analyzer has returned on a death by SIGKILL (9).
C4_Witness == pc[1] = "returned" /\ status[1] = 9 /\ rv[1] = "true"

\* C5: the step that analyzes a continue notification does not return from
\* arch_reapChild; it calls no hook, changes no counter, copies nothing, and
\* leaves the worker in wait4 on the same pid. Nothing bounds how many
\* such steps follow one another.
C5_ContinuedKeepsWaiting ==
    [][\A w \in Workers :
          (pc[w] = "analyze" /\ status[w] = 65535 /\ pc'[w] # pc[w]) =>
              /\ pc'[w] = "wait4"
              /\ rv'[w] = "false"
              /\ fuzzer'[w] = fuzzer[w]
              /\ child'[w] = "alive"
              /\ events'[w] = events[w]
              /\ copies'[w] = copies[w]
              /\ crashesCnt' = crashesCnt
              /\ uniqueCrashesCnt' = uniqueCrashesCnt
              /\ persisted' = persisted]_vars

\* A second continue notification arrives after the first was analyzed.
C5_Witness ==
    \E w \in Workers :
        pc[w] = "analyze" /\ status[w] = 65535 /\ rv[w] = "false"

\* C6: on a normal exit, whatever the exit code, arch_reapChild returns
\* with sancov_Analyze called exactly once, no copy attempted and both
\* counters unchanged.
C6_NormalExitIsBoring ==
    \A w \in Workers :
        NormalExit(status[w]) =>
            /\ pc[w] \in {"analyze", "returned"}
            /\ pc[w] = "returned" =>
                  /\ rv[w] = "true"
                  /\ events[w] = <<"sancov_Analyze">>
                  /\ copies[w] = <<>>
                  /\ crashesCnt = 0
                  /\ uniqueCrashesCnt = 0
                  /\ persisted = {}

\* arch_reapChild has returned on exit code 1.
C6_Witness == pc[1] = "returned" /\ status[1] = W_EXITCODE(1, 0)

\* C7: sancov_Analyze is called exactly once for an exited or signaled
\* status and never for a continue notification, and for a crash it comes
\* before both counter increments and the file copy.
C7_HookOncePerTerminalAndFirst ==
    \A w \in Workers :
        /\ Count(events[w], "sancov_Analyze") <= 1
        /\ pc[w] = "wait4" => events[w] = <<>>
        /\ pc[w] = "returned" =>
              Count(events[w], "sancov_Analyze")
                  = (IF NormalExit(status[w]) \/ status[w] % 128 \in 1..126
                     THEN 1 ELSE 0)
        /\ InCrashPath(w) => Count(events[w], "sancov_Analyze") = 1
        /\ \A i \in DOMAIN events[w] :
              events[w][i] \in {"crashesCnt", "uniqueCrashesCnt", "files_copyFile"}
                  => \E j \in 1..(i - 1) : events[w][j] = "sancov_Analyze"

\* A crash went through the hook, both increments and the copy, in that
\* order.
C7_Witness ==
    /\ pc[1] = "returned"
    /\ CrashDeath(status[1])
    /\ events[1] = <<"sancov_Analyze", "crashesCnt", "uniqueCrashesCnt",
                     "files_copyFile">>

\* the decorated name with the time stamp of second t
Decorated(w, t) ==
    hfuzz.workDir \o <<"/">> \o SigDescr(status[w] % 128) \o <<".">>
        \o FmtD(fuzzer[w].pid) \o <<".">> \o util_getLocalTime(t) \o <<".">>
        \o fuzzer[w].origFileName \o <<".">> \o hfuzz.fileExtn

\* C8: the destination is exactly origFileName when origFlipRate is zero and
\* useVerifier is set; in every other configuration it is workDir, "/", the
\* signal's name, ".", the pid, ".", the time stamp, ".", origFileName, ".",
\* fileExtn, in that order. Every copy goes to that destination.
C8_DestinationName ==
    \A w \in Workers :
        (pc[w] \in {"uniqueCrashesCnt", "files_copyFile"} \/ copies[w] # <<>>) =>
            /\ IF hfuzz.origFlipRate = 0 /\ hfuzz.useVerifier
               THEN newname[w] = fuzzer[w].origFileName
               ELSE \E t \in 0..now : newname[w] = Decorated(w, t)
            /\ \A i \in DOMAIN copies[w] : copies[w][i].dst = newname[w]

\* SIGSEGV of pid 4242 running seed1, verifier off and flip rate zero:
\* the copy goes to /out/SIGSEGV.4242.2024-01-02.10:00:00.seed1.fuzz
C8_Witness ==
    /\ hfuzz.origFlipRate = 0
    /\ ~hfuzz.useVerifier
    /\ copies[1] # <<>>
    /\ copies[1][1].dst =
          <<"/", "o", "u", "t", "/", "S", "I", "G", "S", "E", "G", "V", ".",
            "4", "2", "4", "2", ".", "2", "0", "2", "4", "-", "0", "1", "-",
            "0", "2", ".", "1", "0", ":", "0", "0", ":", "0", "0", ".",
            "s", "e", "e", "d", "1", ".", "f", "u", "z", "z">>

\* the argument the substitution policy gives for template argument a
Substituted(a, path) ==
    IF a = _HF_FILE_PLACEHOLDER THEN path
    ELSE IF strstr(a, _HF_FILE_PLACEHOLDER) # -1
    THEN SubSeq(a, 1, strstr(a, _HF_FILE_PLACEHOLDER)) \o path
    ELSE a

\* C9 as stated: without fuzzStdin, each argument the target receives is
\* the substitution of the template argument at its position, independently
\* of the other arguments.
C9_EachArgumentSubstituted ==
    (lpc = "target" /\ ~fuzzStdin) =>
        \A i \in DOMAIN argv : argv[i] = Substituted(cmdline[i], fileName)

\* C10 as stated: with fuzzStdin, the arguments the target receives are the
\* template, argument for argument.
C10_StdinVectorIsTemplate ==
    (lpc = "target" /\ fuzzStdin) => argv = cmdline

\* C10, amended: with fuzzStdin, the arguments the target receives are the
\* first ARGS_MAX (512) entries of the template, all of it when it has no
\* more, each unchanged, placeholder or not; nothing is written to argData
\* and every args[] entry points into cmdline.
C10_StdinLeavesTemplate ==
    fuzzStdin =>
        /\ argData = <<>>
        /\ \A i \in DOMAIN args : args[i] \in {PtrCmd(i), PtrNull}
        /\ lpc = "target" =>
              /\ Len(argv) = Min(Len(cmdline), ARGS_MAX)
              /\ \A i \in DOMAIN argv : argv[i] = cmdline[i]
              /\ Len(cmdline) <= ARGS_MAX => argv = cmdline

\* The target was started from a template holding the placeholder both as a
\* whole argument and inside one.
C10_Witness ==
    /\ lpc = "target"
    /\ fuzzStdin
    /\ \E i \in DOMAIN argv : argv[i] = _HF_FILE_PLACEHOLDER
    /\ \E i \in DOMAIN argv : strstr(argv[i], _HF_FILE_PLACEHOLDER) > 0

\* C11: when files_copyFile fails after a crash-worthy termination, both
\* counters have been incremented and stay so, the failure is only logged,
\* and the analyzer returns true, so arch_reapChild returns.
C11_CopyFailureKeepsCount ==
    \A w \in Workers :
        (copies[w] # <<>> /\ ~copies[w][1].ok) =>
            /\ pc[w] = "returned"
            /\ rv[w] = "true"
            /\ events[w] = <<"sancov_Analyze", "crashesCnt", "uniqueCrashesCnt",
                             "files_copyFile", "LOG_E">>
            /\ crashesCnt = 1
            /\ uniqueCrashesCnt = 1
            /\ crashTerminations = 1
            /\ Persisted(w) = {}

\* The copy of a SIGSEGV crash failed and arch_reapChild has returned.
C11_Witness ==
    /\ pc[1] = "returned"
    /\ status[1] = SIGSEGV
    /\ copies[1] # <<>>
    /\ ~copies[1][1].ok

\* a status word that is neither a continue notification, nor an exit, nor
\* a signal death: the low seven bits are all set
Unexpected(s) == s >= 0 /\ s # 65535 /\ s % 128 = 127

\* C12: a status that is neither continued, nor a normal exit, nor a signal
\* death makes the analyzer log and return true, so arch_reapChild returns,
\* with no hook call, no counter change and no copy attempt.
C12_UnexpectedStatusIsDeterminate ==
    \A w \in Workers :
        Unexpected(status[w]) =>
            /\ pc[w] \in {"analyze", "returned"}
            /\ pc[w] = "returned" =>
                  /\ rv[w] = "true"
                  /\ events[w] = <<"LOG_E">>
                  /\ copies[w] = <<>>
                  /\ crashesCnt = 0
                  /\ uniqueCrashesCnt = 0
                  /\ persisted = {}

\* arch_reapChild has returned on a stop of the child by SIGSEGV.
C12_Witness ==
    pc[1] = "returned" /\ status[1] = W_STOPCODE(SIGSEGV) /\ rv[1] = "true"

\* C13 as stated: when arch_reapChild returns, the last status it saw is a
\* normal exit or a signal death, and the child is gone.
C13_ReturnsOnlyOnTermination ==
    \A w \in Workers :
        pc[w] = "returned" =>
            /\ NormalExit(status[w]) \/ status[w] % 128 \in 1..126
            /\ child[w] = "reaped"

\* C13, amended: arch_reapChild returns on the first status that is not a
\* continue notification: a normal exit, a signal death, or a word that is
\* neither (a stop), after which the child is still alive. Continue
\* notifications are the only statuses after which it waits again.
C13_ReturnsOnFirstNonContinued ==
    \A w \in Workers :
        /\ pc[w] = "returned" =>
              /\ status[w] # 65535
              /\ status[w] \in AllStatuses
              /\ rv[w] = "true"
              /\ (child[w] = "reaped") =
                    (NormalExit(status[w]) \/ status[w] % 128 \in 1..126)
              /\ (child[w] = "alive") = Unexpected(status[w])
        /\ (pc[w] = "wait4" /\ rv[w] # "none") =>
              /\ status[w] = 65535
              /\ rv[w] = "false"
              /\ child[w] = "alive"

\* arch_reapChild has returned on a stop while the child is alive.
C13_Witness ==
    pc[1] = "returned" /\ status[1] = W_STOPCODE(19) /\ child[1] = "alive"

\* C17: once execvp has succeeded the launcher never returns (the process
\* stays the target); when execvp fails the launcher returns false to its
\* caller, the process goes on, and neither counters nor artifacts change.
C17_LaunchReturnsOnlyOnFailure ==
    [][ /\ lpc = "target" => lpc' = "target"
        /\ (lpc = "execvp" /\ lpc' # lpc) =>
              \/ lpc' = "target" /\ argv' = ArgStrings
              \/ /\ lpc' = "returned"
                 /\ argv' = argv
                 /\ crashesCnt' = crashesCnt
                 /\ uniqueCrashesCnt' = uniqueCrashesCnt
                 /\ persisted' = persisted
                 /\ copies' = copies
        /\ lpc' = "returned" => lpc \in {"execvp", "returned"} ]_vars

\* execvp failed and arch_launchChild has returned false.
C17_Witness == lpc = "returned" /\ argv = <<>> /\ Len(args) > 1

\* the workers that stand between line 133 and line 134
BetweenIncrements == {w \in Workers : pc[w] = "uniqueCrashesCnt"}

\* C18 as stated: the two counters are equal in every reachable state.
C18_CountersAlwaysEqual == uniqueCrashesCnt = crashesCnt

\* C18, amended: crashesCnt exceeds uniqueCrashesCnt by exactly the number
\* of workers that stand between the two increments, so the counters are
\* equal whenever no worker stands there and differ otherwise.
C18_CountersDifferByWorkersBetween ==
    crashesCnt - uniqueCrashesCnt = Cardinality(BetweenIncrements)

\* One worker stands between the increments, the counters differ by one,
\* and another worker has finished a crash with both increments done.
C18_Witness ==
    \E v, w \in Workers :
        /\ v # w
        /\ pc[v] = "uniqueCrashesCnt"
        /\ pc[w] = "returned" /\ CrashDeath(status[w])
        /\ crashesCnt = 2
        /\ uniqueCrashesCnt = 1

\* C19 as stated: whatever the length of cmdline, the target receives one
\* argument per cmdline entry.
C19_OneArgumentPerTemplateArgument ==
    /\ lpc \in {"execvp", "target", "returned"} =>
          /\ Len(args) = Len(cmdline) + 1
          /\ args[Len(args)] = PtrNull
    /\ lpc = "target" => Len(argv) = Len(cmdline)

\* C19, amended: the argument vector holds one argument for each of the
\* first ARGS_MAX (512) entries of cmdline, in cmdline order, followed by
\* the NULL sentinel; entries of cmdline beyond the 512th are dropped.
C19_OneArgumentPerTemplateArgumentUpToMax ==
    LET n == Min(Len(cmdline), ARGS_MAX)
    IN  /\ lpc \in {"execvp", "target", "returned"} =>
              /\ Len(args) = n + 1
              /\ x = n + 1
              /\ args[n + 1] = PtrNull
              /\ \A i \in 1..n :
                    \/ args[i] = PtrCmd(i)
                    \/ /\ ~fuzzStdin
                       /\ strstr(cmdline[i], _HF_FILE_PLACEHOLDER) # -1
                       /\ args[i] \in {PtrFile, PtrData}
        /\ lpc = "target" => Len(argv) = n

\* The target runs with the first 512 of 513 cmdline entries.
C19_Witness ==
    /\ lpc = "target"
    /\ Len(cmdline) = ARGS_MAX + 1
    /\ Len(argv) = ARGS_MAX
    /\ argv[ARGS_MAX] = S_rest

\* C16 as stated: two persistences of different runs, of one worker or of
\* two, never go to the same destination path.
C16_DistinctDestinations ==
    \A a, b \in persisted : a.run # b.run => a.dst # b.dst

\* C16, amended: two persistences of different runs go to the same path only
\* when, with origFlipRate zero and useVerifier set, their origFileName is
\* the same, or, in every other configuration, their signal name, pid,
\* time stamp and origFileName are all the same.
C16_SameDestinationOnlyOnSameFields ==
    \A a, b \in persisted :
        (a.run # b.run /\ a.dst = b.dst) =>
            /\ a.orig = b.orig
            /\ ~SameName =>
                  /\ a.pid = b.pid
                  /\ SigDescr(a.sig) = SigDescr(b.sig)
                  /\ \E t \in 0..MaxTime :
                        /\ a.dst = NewName([pid |-> a.pid, origFileName |-> a.orig],
                                           SigDescr(a.sig), t)
                        /\ b.dst = NewName([pid |-> b.pid, origFileName |-> b.orig],
                                           SigDescr(b.sig), t)

\* Two runs with different pids persisted under the decorated name, at
\* different paths, and two runs of one pid in one second at the same path.
C16_Witness ==
    /\ ~SameName
    /\ \E a, b \in persisted :
          a.run # b.run /\ a.pid = b.pid /\ a.dst = b.dst

\* C14: under fairness, once the child has exited or was killed by a signal,
\* arch_reapChild returns in the end; wait4 calls that return something
\* other than fuzzer->pid in between are repeated and do not prevent it.
C14_DeadChildLeadsToReturn ==
    (child[1] \in {"zombie", "reaped"}) ~> (pc[1] = "returned")

\* arch_reapChild has returned on the status of a child that died on its
\* own and was collected by a later wait4.
C14_Witness ==
    /\ pc[1] = "returned"
    /\ child[1] = "reaped"
    /\ zombie[1] \in Deaths
    /\ status[1] = zombie[1]

\* C15: the analyzer only ever works on a status that wait4 returned
\* together with fuzzer->pid; a status stored by a wait4 that returned
\* something else is overwritten before the analyzer runs, so crashes are
\* counted and persisted only for the worker's own child.
C15_AnalyzerSeesOwnChildOnly ==
    /\ \A w \in Workers :
          /\ pc[w] \in {"analyze", "crashesCnt", "uniqueCrashesCnt",
                         "files_copyFile", "returned"} =>
                /\ reported[w] # -1
                /\ status[w] = reported[w]
          /\ (InCrashPath(w) \/ copies[w] # <<>>) =>
                /\ CrashDeath(reported[w])
                /\ reported[w] = zombie[w]
          /\ (pc[w] = "wait4" /\ rv[w] # "none") => reported[w] = 65535
    /\ (crashesCnt > 0 \/ persisted # {}) =>
          \E w \in Workers : CrashDeath(zombie[w]) /\ reported[w] = zombie[w]

\* wait4 stored a crash status that is not the child's and returned
\* something else than fuzzer->pid; the child had exited normally, and
\* arch_reapChild returned without counting a crash.
C15_Witness ==
    /\ pc[1] = "wait4"
    /\ status[1] = SIGSEGV
    /\ reported[1] # SIGSEGV
    /\ child[1] = "zombie"
    /\ zombie[1] = W_EXITCODE(0, 0)

\* the status words wait4 reports for a child killed by a signal: the
\* signal, 1 to 64 on this platform, and the core flag
SignalDeaths == {sig + core : sig \in 1..64, core \in {0, 128}}

====
